---- MODULE Spec2Model ----
(***************************************************************************)
(* Model of the retrieval pipeline of rag.py: find_files, load_documents,  *)
(* split_documents, build_or_load_faiss (FAISS.from_documents, mkdir,      *)
(* save_local, load_local) and the retrieval made by ask_question.         *)
(*                                                                         *)
(* Spec      : pipeline runs sharing one INDEX_PATH directory, each step   *)
(*             of build_or_load_faiss that touches the disk being one      *)
(*             action, so that concurrent runs, I/O errors and             *)
(*             interruptions in the middle of the write are visible.       *)
(* SpecQuery : the retrieval of ask_question as a function of the index,   *)
(*             the question, k, the search type and lambda_mult.           *)
(* SpecAsk   : ask_question calls on one loaded index.                     *)
(* SpecSplit : split_documents on documents with content.                  *)
(* SpecLoad  : the loop of load_documents over the files found.            *)
(* SpecRepeat: two runs of build, persist, load and query in a row.        *)
(* SpecDates, SpecIngest: parse_relative_date and main of ingestion.py.    *)
(* SpecAlert : check_and_alert_price_change of main.py.                    *)
(***************************************************************************)
EXTENDS Integers, Sequences, FiniteSets, TLC

VARIABLES
    disk,        \* INDEX_PATH: the directory and its two files index.faiss, index.pkl
    pc,          \* pc[r]: position of pipeline run r
    rebuild,     \* rebuild[r]: the rebuild argument of build_or_load_faiss
    files,       \* files[r]: result of find_files(DOCS_PATH)
    docs,        \* docs[r]: result of load_documents(files)
    chunks,      \* chunks[r]: number of chunks made by split_documents(docs)
    embedded,    \* embedded[r]: number of chunks embedded so far by from_documents
    vs,          \* vs[r]: the vector store held by run r (built or loaded)
    readVec,     \* readVec[r]: the index.faiss that load_local has read, before it reads index.pkl
    err,         \* err[r]: the exception that ended run r, or "none"
    written,     \* written[r]: number of changes run r made under INDEX_PATH
    diskAtCall,  \* diskAtCall[r]: INDEX_PATH when run r entered build_or_load_faiss
    q,           \* the query state of SpecQuery (one retrieval of ask_question)
    sp,          \* the state of SpecSplit (split_documents on documents with content)
    ask,         \* the state of SpecAsk (ask_question calls on one loaded index)
    embedCalls,  \* embedCalls[r]: number of embedding calls made by from_documents
    ld,          \* the state of SpecLoad (the loop of load_documents over the files)
    det,         \* the state of SpecRepeat (two runs of build, persist, load, query)
    rd,          \* the state of SpecDates (parse_relative_date of ingestion.py)
    ing,         \* the state of SpecIngest (main of ingestion.py)
    pa           \* the state of SpecAlert (check_and_alert_price_change of main.py)

\* The variables of the specifications about load_documents, repeated runs,
\* ingestion.py and main.py.
sideVars == <<ld, det, rd, ing, pa>>

vars == <<disk, pc, rebuild, files, docs, chunks, embedded, vs, readVec, err, written, diskAtCall,
         q, sp, ask, embedCalls, ld, det, rd, ing, pa>>

pipeVars == <<disk, pc, rebuild, files, docs, chunks, embedded, vs, readVec, err, written, diskAtCall,
             embedCalls>>

----------------------------------------------------------------------------
(* Bounds of the model *)

MaxFiles == 1
MaxChunks == 2

\* The pipeline runs (processes started from __main__) that share INDEX_PATH.
Runs == {1, 2}

\* Generation written by no run: the snapshot found at INDEX_PATH at the start.
OldGen == 0

NoGen == -1

Gens == Runs \cup {OldGen}

----------------------------------------------------------------------------
(* INDEX_PATH on disk *)

\* One file of the snapshot: who wrote it last and how far the write got.
\*   absent   - no such file
\*   partial  - opened for writing (truncated), the write is not finished
\*   complete - a finished write of generation gen
\*   torn     - bytes of two overlapping writers
AbsentFile == [gen |-> NoGen, st |-> "absent"]

NoDisk == [dir |-> FALSE, faiss |-> AbsentFile, pkl |-> AbsentFile]

OldSnapshot ==
    [dir |-> TRUE,
     faiss |-> [gen |-> OldGen, st |-> "complete"],
     pkl |-> [gen |-> OldGen, st |-> "complete"]]

\* open(path, "wb") by run r: the file is created or truncated.
OpenForWrite(r) == [gen |-> r, st |-> "partial"]

\* The write of run r to a file it opened ends. Another writer that opened the
\* same file in between has truncated it: the result holds bytes of both.
FinishWrite(f, r) ==
    IF f.st = "partial" /\ f.gen = r
        THEN [gen |-> r, st |-> "complete"]
        ELSE [gen |-> f.gen, st |-> "torn"]

NoStore == [vec |-> NoGen, store |-> NoGen, origin |-> "none"]

\* What read of a torn file yields when the reader does not reject it.
TornGen == -2

----------------------------------------------------------------------------
(* __main__, lines 107-121: one pipeline run r *)

\* Paths are numbered 1..n in the order find_files returns them.
Paths(n) == [i \in 1..n |-> i]

\* load_documents: the documents of the files whose loader did not raise, in the
\* order of the paths; a file in `failing` is skipped with a warning.
load_documents(paths, failing) == SelectSeq(paths, LAMBDA p : p \notin failing)

\* A run ends with an exception.
Raise(r, e) ==
    /\ pc' = [pc EXCEPT ![r] = "failed"]
    /\ err' = [err EXCEPT ![r] = e]

Goto(r, l) ==
    /\ pc' = [pc EXCEPT ![r] = l]
    /\ err' = err

\* files = find_files(DOCS_PATH); if not files: raise SystemExit
main_find_files(r) ==
    /\ pc[r] = "find"
    /\ \E n \in 0..MaxFiles :
          /\ files' = [files EXCEPT ![r] = Paths(n)]
          /\ IF n = 0 THEN Raise(r, "SystemExit: no documents found")
                      ELSE Goto(r, "load")
    /\ UNCHANGED <<disk, rebuild, docs, chunks, embedded, vs, readVec, written, diskAtCall, q, sp, ask, embedCalls, sideVars>>

\* Mutant: the check on the loaded documents is missing.
main_check_docs_missing(r, d) == Goto(r, "split")

\* The check of __main__ on the loaded documents: if not docs: raise SystemExit
main_check_docs(r, d) ==
    IF d = <<>> THEN Raise(r, "SystemExit: no documents loaded")
                ELSE Goto(r, "split")

\* docs = load_documents(files); if not docs: raise SystemExit
main_load_documents(r) ==
    /\ pc[r] = "load"
    /\ \E failing \in SUBSET (1..Len(files[r])) :
          LET d == load_documents(files[r], failing) IN
          /\ docs' = [docs EXCEPT ![r] = d]
          /\ main_check_docs(r, d)
    /\ UNCHANGED <<disk, rebuild, files, chunks, embedded, vs, readVec, written, diskAtCall, q, sp, ask, embedCalls, sideVars>>

\* chunks = split_documents(docs); if not chunks: raise SystemExit
\* (documents without text yield no chunk). The run then calls
\* build_or_load_faiss(chunks, REBUILD_INDEX).
main_split_documents(r) ==
    /\ pc[r] = "split"
    /\ \E n \in 0..MaxChunks :
          /\ chunks' = [chunks EXCEPT ![r] = n]
          /\ IF n = 0 THEN Raise(r, "SystemExit: no chunks created")
                      ELSE Goto(r, "build")
          /\ diskAtCall' = [diskAtCall EXCEPT ![r] = IF n = 0 THEN @ ELSE disk]
    /\ UNCHANGED <<disk, rebuild, files, docs, embedded, vs, readVec, written, q, sp, ask, embedCalls, sideVars>>

----------------------------------------------------------------------------
(* build_or_load_faiss, lines 75-86 *)

\* The rebuild argument is ignored: the index is always built and written.
build_or_load_faiss_always_builds(r) ==
    /\ pc[r] = "build"
    /\ Goto(r, "embed")
    /\ UNCHANGED <<disk, rebuild, files, docs, chunks, embedded, vs, readVec, written, diskAtCall, q, sp, ask, embedCalls, sideVars>>

\* Line 77: if rebuild: build and save, then (in both cases) load.
build_or_load_faiss(r) ==
    /\ pc[r] = "build"
    /\ Goto(r, IF rebuild[r] THEN "embed" ELSE "read_index")
    /\ UNCHANGED <<disk, rebuild, files, docs, chunks, embedded, vs, readVec, written, diskAtCall, q, sp, ask, embedCalls, sideVars>>

\* Run r changes INDEX_PATH to d.
WriteDisk(r, d) ==
    /\ disk' = d
    /\ written' = [written EXCEPT ![r] = IF d = disk THEN @ ELSE @ + 1]

\* Mutant: the directory is made before the chunks are embedded (lines 79 and
\* 80 swapped).
from_documents_disk_mkdir_first(r) == WriteDisk(r, [disk EXCEPT !.dir = TRUE])

\* What line 79 does to INDEX_PATH, whether the embedding succeeds or raises:
\* nothing, the first write is the mkdir of line 80.
from_documents_disk(r) == UNCHANGED <<disk, written>>

\* Mutant: a failed embedding call is made again.
from_documents_failure_retries(r) == Goto(r, "embed")

\* Line 79 has no handler: the exception of the embedding call leaves
\* from_documents and build_or_load_faiss at once.
from_documents_failure(r) == Raise(r, "EmbeddingServiceError")

\* Line 79, vs = FAISS.from_documents(chunks, embeddings): the chunks are
\* embedded in order; an embedding failure raises out of build_or_load_faiss
\* before line 80.
from_documents(r) ==
    /\ pc[r] = "embed"
    /\ from_documents_disk(r)
    /\ \E ok \in BOOLEAN :
          IF ok
            THEN /\ embedded' = [embedded EXCEPT ![r] = @ + 1]
                 /\ IF embedded[r] + 1 = chunks[r]
                      THEN /\ vs' = [vs EXCEPT ![r] = [vec |-> r, store |-> r, origin |-> "built"]]
                           /\ Goto(r, "mkdir")
                      ELSE /\ vs' = vs
                           /\ Goto(r, "embed")
            ELSE /\ from_documents_failure(r)
                 /\ UNCHANGED <<embedded, vs>>
    /\ embedCalls' = [embedCalls EXCEPT ![r] = @ + 1]
    /\ UNCHANGED <<rebuild, files, docs, chunks, readVec, diskAtCall, q, sp, ask, sideVars>>

\* Line 80, INDEX_PATH.mkdir(parents=True, exist_ok=True).
index_path_mkdir(r) ==
    /\ pc[r] = "mkdir"
    /\ \E ok \in BOOLEAN :
          IF ok
            THEN /\ WriteDisk(r, [disk EXCEPT !.dir = TRUE])
                 /\ Goto(r, "write_index_open")
            ELSE /\ Raise(r, "OSError")
                 /\ UNCHANGED <<disk, written>>
    /\ UNCHANGED <<rebuild, files, docs, chunks, embedded, vs, readVec, diskAtCall, q, sp, ask, embedCalls, sideVars>>

\* Line 81, vs.save_local: faiss.write_index opens INDEX_PATH/index.faiss for
\* writing, in place; the file is truncated as soon as it is open.
save_local_open_index(r) ==
    /\ pc[r] = "write_index_open"
    /\ \E ok \in BOOLEAN :
          IF ok
            THEN /\ WriteDisk(r, [disk EXCEPT !.faiss = OpenForWrite(r)])
                 /\ Goto(r, "write_index")
            ELSE /\ Raise(r, "OSError")
                 /\ UNCHANGED <<disk, written>>
    /\ UNCHANGED <<rebuild, files, docs, chunks, embedded, vs, readVec, diskAtCall, q, sp, ask, embedCalls, sideVars>>

\* Line 81, vs.save_local: faiss.write_index writes the vectors and closes the
\* file; a write error leaves the truncated file behind.
save_local_write_index(r) ==
    /\ pc[r] = "write_index"
    /\ \E ok \in BOOLEAN :
          IF ok
            THEN /\ WriteDisk(r, [disk EXCEPT !.faiss = FinishWrite(@, r)])
                 /\ Goto(r, "pickle_open")
            ELSE /\ Raise(r, "OSError")
                 /\ UNCHANGED <<disk, written>>
    /\ UNCHANGED <<rebuild, files, docs, chunks, embedded, vs, readVec, diskAtCall, q, sp, ask, embedCalls, sideVars>>

\* Line 81, vs.save_local: open(INDEX_PATH/index.pkl, "wb"), after index.faiss
\* has been written.
save_local_open_pickle(r) ==
    /\ pc[r] = "pickle_open"
    /\ \E ok \in BOOLEAN :
          IF ok
            THEN /\ WriteDisk(r, [disk EXCEPT !.pkl = OpenForWrite(r)])
                 /\ Goto(r, "pickle_dump")
            ELSE /\ Raise(r, "OSError")
                 /\ UNCHANGED <<disk, written>>
    /\ UNCHANGED <<rebuild, files, docs, chunks, embedded, vs, readVec, diskAtCall, q, sp, ask, embedCalls, sideVars>>

\* Line 81, vs.save_local: pickle.dump((docstore, index_to_docstore_id), f).
save_local_pickle_dump(r) ==
    /\ pc[r] = "pickle_dump"
    /\ \E ok \in BOOLEAN :
          IF ok
            THEN /\ WriteDisk(r, [disk EXCEPT !.pkl = FinishWrite(@, r)])
                 /\ Goto(r, "read_index")
            ELSE /\ Raise(r, "OSError")
                 /\ UNCHANGED <<disk, written>>
    /\ UNCHANGED <<rebuild, files, docs, chunks, embedded, vs, readVec, diskAtCall, q, sp, ask, embedCalls, sideVars>>

\* The positions of a run inside lines 80-81 (mkdir and save_local).
PersistPcs == {"mkdir", "write_index_open", "write_index", "pickle_open", "pickle_dump"}

\* The process of run r is interrupted (killed, power loss) while it persists:
\* it stops where it is, and the files stay as they are.
Interrupt(r) ==
    /\ pc[r] \in PersistPcs
    /\ Goto(r, "crashed")
    /\ UNCHANGED <<disk, rebuild, files, docs, chunks, embedded, vs, readVec, written, diskAtCall, q, sp, ask, embedCalls, sideVars>>

\* What reading file f can give: a failure, or the content of generation gen.
\* A missing or truncated file fails to parse; a torn file may fail or parse.
ReadFile(f) ==
    CASE f.st = "complete" -> {[ok |-> TRUE, gen |-> f.gen]}
      [] f.st = "torn"     -> {[ok |-> FALSE, gen |-> NoGen], [ok |-> TRUE, gen |-> TornGen]}
      [] OTHER             -> {[ok |-> FALSE, gen |-> NoGen]}

\* Mutant: a missing index is masked by a fresh build from the chunks given.
load_local_missing_rebuilds(r) == Goto(r, "embed")

\* Line 84 raises: the exception leaves build_or_load_faiss, which has no
\* handler and no other way to get an index.
load_local_missing(r) == Raise(r, "RuntimeError: read_index")

\* Line 84, FAISS.load_local: faiss.read_index(INDEX_PATH/index.faiss). It
\* raises when the file is missing or cannot be parsed.
load_local_read_index(r) ==
    /\ pc[r] = "read_index"
    /\ \E res \in ReadFile(disk.faiss) :
          IF res.ok
            THEN /\ readVec' = [readVec EXCEPT ![r] = res.gen]
                 /\ Goto(r, "read_pickle")
            ELSE /\ load_local_missing(r)
                 /\ readVec' = readVec
    /\ UNCHANGED <<disk, rebuild, files, docs, chunks, embedded, vs, written, diskAtCall, q, sp, ask, embedCalls, sideVars>>

\* The vector store load_local makes of the two parts it has read: it pairs
\* them as they are, without comparing them.
LoadedStore(vecGen, storeGen) == [vec |-> vecGen, store |-> storeGen, origin |-> "loaded"]

\* Line 84, FAISS.load_local: pickle.load of INDEX_PATH/index.pkl, then the
\* FAISS object is made of the index and the docstore read; lines 85-86 return
\* it, replacing the store built at line 79.
load_local_read_pickle(r) ==
    /\ pc[r] = "read_pickle"
    /\ \E res \in ReadFile(disk.pkl) :
          IF res.ok
            THEN /\ vs' = [vs EXCEPT ![r] = LoadedStore(readVec[r], res.gen)]
                 /\ Goto(r, "ask")
            ELSE /\ Raise(r, IF disk.pkl.st = "absent" THEN "FileNotFoundError"
                                                       ELSE "UnpicklingError")
                 /\ vs' = vs
    /\ UNCHANGED <<disk, rebuild, files, docs, chunks, embedded, readVec, written, diskAtCall, q, sp, ask, embedCalls, sideVars>>

\* Line 121, answer = ask_question(vs, QUESTION): the run queries the store
\* that build_or_load_faiss returned (the retrieval itself is SpecQuery).
main_ask_question(r) ==
    /\ pc[r] = "ask"
    /\ Goto(r, "done")
    /\ UNCHANGED <<disk, rebuild, files, docs, chunks, embedded, vs, readVec, written, diskAtCall, q, sp, ask, embedCalls, sideVars>>

----------------------------------------------------------------------------
(* The pipeline specification *)

NoQuery == [state |-> "none"]

NoSplit == [state |-> "none"]

NoAsk == [state |-> "none"]

NoLoad == [state |-> "none"]

NoRepeat == [state |-> "none"]

NoDates == [state |-> "none"]

NoIngest == [state |-> "none"]

NoAlert == [state |-> "none"]

Init ==
    /\ disk \in {NoDisk, OldSnapshot}
    /\ pc = [r \in Runs |-> "find"]
    /\ rebuild \in [Runs -> BOOLEAN]
    /\ files = [r \in Runs |-> <<>>]
    /\ docs = [r \in Runs |-> <<>>]
    /\ chunks = [r \in Runs |-> 0]
    /\ embedded = [r \in Runs |-> 0]
    /\ vs = [r \in Runs |-> NoStore]
    /\ readVec = [r \in Runs |-> NoGen]
    /\ err = [r \in Runs |-> "none"]
    /\ written = [r \in Runs |-> 0]
    /\ diskAtCall = [r \in Runs |-> NoDisk]
    /\ embedCalls = [r \in Runs |-> 0]
    /\ q = NoQuery
    /\ sp = NoSplit
    /\ ask = NoAsk
    /\ ld = NoLoad
    /\ det = NoRepeat
    /\ rd = NoDates
    /\ ing = NoIngest
    /\ pa = NoAlert

Next ==
    \E r \in Runs :
        \/ main_find_files(r)
        \/ main_load_documents(r)
        \/ main_split_documents(r)
        \/ build_or_load_faiss(r)
        \/ from_documents(r)
        \/ index_path_mkdir(r)
        \/ save_local_open_index(r)
        \/ save_local_write_index(r)
        \/ save_local_open_pickle(r)
        \/ save_local_pickle_dump(r)
        \/ Interrupt(r)
        \/ load_local_read_index(r)
        \/ load_local_read_pickle(r)
        \/ main_ask_question(r)

Spec == Init /\ [][Next]_vars

----------------------------------------------------------------------------
(* The retrieval of ask_question, lines 89-90 and 103                      *)
(*                                                                         *)
(* retriever = vectorstore.as_retriever(search_type=SEARCH_TYPE,           *)
(*                                      search_kwargs={"k": TOP_K})        *)
(* An index is the sequence of the embedding vectors of its chunks, in     *)
(* insertion order; a chunk is named by its ordinal in that sequence.      *)
(* Vectors are integer pairs whose norm is an integer, so that L2          *)
(* distances and cosine similarities (in hundredths) are exact.            *)

MaxIndex == 3
MaxK == 3

\* rag.py line 30
TOP_K == 4

\* fetch_k of FAISS.max_marginal_relevance_search: search_kwargs at line 90
\* gives k only, so the library default applies.
FETCH_K == 20

\* lambda_mult of FAISS.max_marginal_relevance_search, in tenths: search_kwargs
\* at line 90 gives k only, so the library default 0.5 applies.
LAMBDA_MULT == 5

\* What the embedding service may return: vectors of norm 5 and of norm 10.
Vectors == {<<5, 0>>, <<0, 5>>, <<3, 4>>, <<-3, 4>>, <<10, 0>>, <<6, 8>>}

Questions == {<<5, 0>>, <<3, 4>>, <<0, 10>>}

Min(a, b) == IF a < b THEN a ELSE b

Dot(a, b) == a[1] * b[1] + a[2] * b[2]

Norm(a) == CHOOSE n \in 0..10 : n * n = Dot(a, a)

\* Squared L2 distance, the metric of the IndexFlatL2 that FAISS.from_documents builds.
L2sq(a, b) == (a[1] - b[1]) * (a[1] - b[1]) + (a[2] - b[2]) * (a[2] - b[2])

\* cosine_similarity of maximal_marginal_relevance, in hundredths.
Cos100(a, b) == (Dot(a, b) * 100) \div (Norm(a) * Norm(b))

\* Mutant: equal distances are ordered by descending id.
CloserLatestFirst(index, qv, i, j) ==
    \/ L2sq(index[i], qv) < L2sq(index[j], qv)
    \/ L2sq(index[i], qv) = L2sq(index[j], qv) /\ i > j

\* faiss orders results by distance and breaks ties by ascending id.
Closer(index, qv, i, j) ==
    \/ L2sq(index[i], qv) < L2sq(index[j], qv)
    \/ L2sq(index[i], qv) = L2sq(index[j], qv) /\ i < j

\* index.search(vector, k): the ordinals of the min(k, ntotal) nearest vectors,
\* nearest first (the -1 entries that pad a short result are dropped by the caller).
IndexSearch(index, qv, k) ==
    LET n == Len(index)
        rank == [i \in 1..n |-> Cardinality({j \in 1..n : Closer(index, qv, j, i)})]
    IN  [p \in 1..Min(k, n) |-> CHOOSE i \in 1..n : rank[i] = p - 1]

\* FAISS.similarity_search(query, k): the documents of index.search, in its order.
similarity_search(index, qv, k) == IndexSearch(index, qv, k)

Range(s) == {s[i] : i \in 1..Len(s)}

\* The candidate with the highest score among cands, the first one on equal
\* scores (the loop replaces the best only on a strictly higher score).
FirstBest(cands, score) ==
    CHOOSE i \in cands :
        \A j \in cands : score[j] < score[i] \/ (score[j] = score[i] /\ i <= j)

MaxOf(S) == CHOOSE x \in S : \A y \in S : y <= x

\* equation_score of candidate i, times 1000:
\* lambda_mult * query_score - (1 - lambda_mult) * redundant_score
EquationScore(lam, queryScore, redundantScore) ==
    lam * queryScore - (10 - lam) * redundantScore

\* The while loop of maximal_marginal_relevance: one more candidate is
\* selected until min(k, len(embedding_list)) are.
RECURSIVE MmrLoop(_, _, _, _, _)
MmrLoop(emb, simq, k, lam, idxs) ==
    IF Len(idxs) >= Min(k, Len(emb)) THEN idxs
    ELSE LET cands == (1..Len(emb)) \ Range(idxs)
             score == [i \in cands |->
                         EquationScore(lam, simq[i],
                             MaxOf({Cos100(emb[i], emb[s]) : s \in Range(idxs)}))]
         IN  MmrLoop(emb, simq, k, lam, Append(idxs, FirstBest(cands, score)))

\* maximal_marginal_relevance(query_embedding, embedding_list, lambda_mult, k):
\* positions in embedding_list, in selection order; the first is the argmax of
\* the similarity to the query.
maximal_marginal_relevance(qv, emb, lam, k) ==
    IF Min(k, Len(emb)) <= 0 THEN <<>>
    ELSE LET simq == [i \in 1..Len(emb) |-> Cos100(qv, emb[i])]
         IN  MmrLoop(emb, simq, k, lam, <<FirstBest(1..Len(emb), simq)>>)

\* FAISS.max_marginal_relevance_search(query, k, fetch_k, lambda_mult): the
\* fetch_k nearest vectors are the candidates, and the documents selected among
\* them are returned in selection order.
max_marginal_relevance_search(index, qv, k, fetch_k, lam) ==
    LET indices == IndexSearch(index, qv, fetch_k)
        emb == [c \in 1..Len(indices) |-> index[indices[c]]]
        sel == maximal_marginal_relevance(qv, emb, lam, k)
    IN  [p \in 1..Len(sel) |-> indices[sel[p]]]

----------------------------------------------------------------------------
(* The query specification: one call of ask_question on a loaded index *)

RECURSIVE SeqsUpTo(_, _)
SeqsUpTo(S, n) ==
    IF n = 0 THEN {<<>>}
    ELSE LET shorter == SeqsUpTo(S, n - 1)
         IN  shorter \cup {Append(s, x) : s \in {t \in shorter : Len(t) = n - 1}, x \in S}

\* An index of n chunks whose vectors repeat `seed`.
Cycle(seed, n) == [i \in 1..n |-> seed[((i - 1) % Len(seed)) + 1]]

\* The indexes queried: every index of at most MaxIndex chunks, and indexes
\* with more chunks than fetch_k.
LongSeeds == SeqsUpTo({<<5, 0>>, <<6, 8>>}, 2) \ {<<>>}

Indexes ==
    SeqsUpTo(Vectors, MaxIndex) \cup {Cycle(seed, FETCH_K + 1) : seed \in LongSeeds}

\* The values of k: small ones, the TOP_K of line 30, and values around fetch_k.
Ks == (1..MaxK) \cup {TOP_K, FETCH_K, FETCH_K + 1}

\* lambda_mult in tenths: the default, and 1.
Lambdas == {LAMBDA_MULT, 10}

SearchTypes == {"similarity", "mmr"}

InitQuery ==
    /\ disk = OldSnapshot
    /\ pc = [r \in Runs |-> "find"]
    /\ rebuild = [r \in Runs |-> FALSE]
    /\ files = [r \in Runs |-> <<>>]
    /\ docs = [r \in Runs |-> <<>>]
    /\ chunks = [r \in Runs |-> 0]
    /\ embedded = [r \in Runs |-> 0]
    /\ vs = [r \in Runs |-> NoStore]
    /\ readVec = [r \in Runs |-> NoGen]
    /\ err = [r \in Runs |-> "none"]
    /\ written = [r \in Runs |-> 0]
    /\ diskAtCall = [r \in Runs |-> NoDisk]
    /\ embedCalls = [r \in Runs |-> 0]
    /\ sp = NoSplit
    /\ ask = NoAsk
    /\ ld = NoLoad
    /\ det = NoRepeat
    /\ rd = NoDates
    /\ ing = NoIngest
    /\ pa = NoAlert
    /\ \E index \in Indexes, qv \in Questions, k \in Ks, st \in SearchTypes, lam \in Lambdas :
          /\ st = "similarity" => lam = LAMBDA_MULT
          /\ q = [state |-> "ready", index |-> index, question |-> qv, k |-> k,
                  search_type |-> st, lambda_mult |-> lam, result |-> <<>>]

\* Line 103 with SEARCH_TYPE = "similarity": the retriever calls
\* vectorstore.similarity_search(question, k=TOP_K).
retrieve_similarity ==
    /\ q.state = "ready"
    /\ q.search_type = "similarity"
    /\ q' = [q EXCEPT !.state = "retrieved",
                      !.result = similarity_search(q.index, q.question, q.k)]
    /\ UNCHANGED <<pipeVars, sp, ask, sideVars>>

\* Line 103 with SEARCH_TYPE = "mmr": the retriever calls
\* vectorstore.max_marginal_relevance_search(question, k=TOP_K).
retrieve_mmr ==
    /\ q.state = "ready"
    /\ q.search_type = "mmr"
    /\ q' = [q EXCEPT !.state = "retrieved",
                      !.result = max_marginal_relevance_search(
                                     q.index, q.question, q.k, FETCH_K, q.lambda_mult)]
    /\ UNCHANGED <<pipeVars, sp, ask, sideVars>>

NextQuery == retrieve_similarity \/ retrieve_mmr

SpecQuery == InitQuery /\ [][NextQuery]_vars

----------------------------------------------------------------------------
(* ask_question, lines 89-104: calls on one loaded vector store            *)
(*                                                                         *)
(* rag_chain.invoke embeds the question, retrieves (one index search, and  *)
(* for mmr the selection among the candidates, which reads their vectors   *)
(* back from the index), joins the page_content of the documents retrieved *)
(* into {context}, and calls the ChatGroq model; result["answer"] is       *)
(* returned as it is.                                                      *)

MaxAskIndex == 2

\* rag.py lines 32-33
CHUNK_SIZE == 800
CHUNK_OVERLAP == 120

\* max_retries of ChatGroq: line 98 gives the model name only, so the library
\* default applies, and the client sends a failed request again up to twice.
GROQ_MAX_RETRIES == 2

\* Length of the separator "\n\n" that create_stuff_documents_chain puts
\* between the documents of the context.
DOCUMENT_SEPARATOR_LEN == 2

\* The chunks an index is made of here: an embedding vector and the length of
\* the chunk's text.
AskChunks ==
    {[v |-> <<5, 0>>, len |-> 1],
     [v |-> <<3, 4>>, len |-> CHUNK_SIZE],
     [v |-> <<6, 8>>, len |-> CHUNK_SIZE]}

AskQuestions == {<<5, 0>>, <<3, 4>>}

AskKs == {1, TOP_K}

\* The concurrent callers of ask_question on the same vector store.
Calls == {1, 2}

\* The vectors of an index of chunks.
VectorsOf(index) == [i \in 1..Len(index) |-> index[i].v]

NewCall ==
    [pc |-> "start", question |-> <<0, 0>>, cands |-> <<>>, got |-> FALSE, result |-> <<>>,
     context |-> 0, embedQueryCalls |-> 0, generateCalls |-> 0,
     answer |-> "none", err |-> "none"]

InitAsk ==
    /\ disk = OldSnapshot
    /\ pc = [r \in Runs |-> "find"]
    /\ rebuild = [r \in Runs |-> FALSE]
    /\ files = [r \in Runs |-> <<>>]
    /\ docs = [r \in Runs |-> <<>>]
    /\ chunks = [r \in Runs |-> 0]
    /\ embedded = [r \in Runs |-> 0]
    /\ vs = [r \in Runs |-> NoStore]
    /\ readVec = [r \in Runs |-> NoGen]
    /\ err = [r \in Runs |-> "none"]
    /\ written = [r \in Runs |-> 0]
    /\ diskAtCall = [r \in Runs |-> NoDisk]
    /\ embedCalls = [r \in Runs |-> 0]
    /\ q = NoQuery
    /\ sp = NoSplit
    /\ ld = NoLoad
    /\ det = NoRepeat
    /\ rd = NoDates
    /\ ing = NoIngest
    /\ pa = NoAlert
    /\ \E index \in SeqsUpTo(AskChunks, MaxAskIndex), k \in AskKs, st \in SearchTypes :
          ask = [state |-> "run", index |-> index, index0 |-> index, k |-> k,
                 search_type |-> st, call |-> [c \in Calls |-> NewCall]]

\* Mutant: the search sorts the vectors of the store in place, nearest first.
IndexSortedInPlace(index, qv) ==
    LET order == IndexSearch(VectorsOf(index), qv, Len(index))
    IN  [i \in 1..Len(index) |-> index[order[i]]]

\* What a search leaves of the index of the store: index.search and
\* index.reconstruct only read it.
IndexAfterSearch(index, qv) == index

\* Call c goes on with the fields of its record changed to rec.
AskStep(c, rec, index) ==
    /\ ask' = [ask EXCEPT !.call[c] = rec, !.index = index]
    /\ UNCHANGED <<pipeVars, q, sp, sideVars>>

\* Line 103, the retriever: the question is embedded (embed_query), once; a
\* failure raises out of ask_question.
ask_embed_query(c) ==
    LET me == ask.call[c] IN
    /\ ask.state = "run"
    /\ me.pc = "start"
    /\ \E qv \in AskQuestions, ok \in BOOLEAN :
          AskStep(c, [me EXCEPT !.question = qv,
                                !.embedQueryCalls = @ + 1,
                                !.pc = IF ok THEN "search" ELSE "failed",
                                !.err = IF ok THEN "none" ELSE "QueryEmbeddingError"],
                  ask.index)

\* Line 103, the retriever: index.search. For "similarity" its result is the
\* retrieval; for "mmr" it gives the fetch_k candidates.
ask_index_search(c) ==
    LET me == ask.call[c]
        vecs == VectorsOf(ask.index)
    IN
    /\ ask.state = "run"
    /\ me.pc = "search"
    /\ IF ask.search_type = "similarity"
         THEN AskStep(c, [me EXCEPT !.result = similarity_search(vecs, me.question, ask.k),
                                    !.got = TRUE,
                                    !.pc = "compose"],
                      IndexAfterSearch(ask.index, me.question))
         ELSE AskStep(c, [me EXCEPT !.cands = IndexSearch(vecs, me.question, FETCH_K),
                                    !.pc = "select"],
                      IndexAfterSearch(ask.index, me.question))

\* Line 103, the retriever with "mmr": the vectors of the candidates are read
\* back from the index (index.reconstruct) and maximal_marginal_relevance
\* selects among them.
ask_mmr_select(c) ==
    LET me == ask.call[c]
        emb == [i \in 1..Len(me.cands) |-> ask.index[me.cands[i]].v]
        sel == maximal_marginal_relevance(me.question, emb, LAMBDA_MULT, ask.k)
    IN
    /\ ask.state = "run"
    /\ me.pc = "select"
    /\ AskStep(c, [me EXCEPT !.result = [p \in 1..Len(sel) |-> me.cands[sel[p]]],
                             !.got = TRUE,
                             !.pc = "compose"],
               IndexAfterSearch(ask.index, me.question))

RECURSIVE SumLen(_, _)
SumLen(index, result) ==
    IF result = <<>> THEN 0
    ELSE index[Head(result)].len + SumLen(index, Tail(result))

\* The {context} of the prompt of lines 92-96: the page_content of every
\* document retrieved, in the retriever's order, joined by "\n\n". Nothing
\* limits its length and no document is left out.
ContextLen(index, result) ==
    IF result = <<>> THEN 0
    ELSE SumLen(index, result) + DOCUMENT_SEPARATOR_LEN * (Len(result) - 1)

\* Line 103, create_stuff_documents_chain: the prompt is made.
ask_compose(c) ==
    LET me == ask.call[c] IN
    /\ ask.state = "run"
    /\ me.pc = "compose"
    /\ AskStep(c, [me EXCEPT !.context = ContextLen(ask.index, me.result),
                             !.pc = "generate"],
               ask.index)

\* Line 103, the ChatGroq call: one request to the generation service. It
\* returns a text, possibly empty, which ask_question returns (line 104); or
\* it fails, and a failure the client holds for transient (connection error,
\* timeout, 429, 5xx) is sent again while retries are left.
ask_generate(c) ==
    LET me == ask.call[c] IN
    /\ ask.state = "run"
    /\ me.pc = "generate"
    /\ \E out \in {"text", "empty", "transient", "fatal"} :
          AskStep(c,
              CASE out \in {"text", "empty"} ->
                       [me EXCEPT !.generateCalls = @ + 1, !.answer = out, !.pc = "done"]
                [] out = "transient" /\ me.generateCalls < GROQ_MAX_RETRIES ->
                       [me EXCEPT !.generateCalls = @ + 1]
                [] OTHER ->
                       [me EXCEPT !.generateCalls = @ + 1, !.pc = "failed",
                                  !.err = "GenerationServiceError"],
              ask.index)

\* The caller calls ask_question again on the same store.
ask_again(c) ==
    /\ ask.state = "run"
    /\ ask.call[c].pc \in {"done", "failed"}
    /\ AskStep(c, NewCall, ask.index)

NextAsk ==
    \E c \in Calls :
        \/ ask_embed_query(c)
        \/ ask_index_search(c)
        \/ ask_mmr_select(c)
        \/ ask_compose(c)
        \/ ask_generate(c)
        \/ ask_again(c)

SpecAsk == InitAsk /\ [][NextAsk]_vars

----------------------------------------------------------------------------
(* split_documents, lines 67-72                                            *)
(*                                                                         *)
(* RecursiveCharacterTextSplitter(chunk_size, chunk_overlap) with its      *)
(* defaults: separators "\n\n", "\n", " ", "", the separator kept at the   *)
(* start of the piece that follows it, chunks stripped of whitespace.      *)
(* A text is a sequence of characters. The pieces the splitter cuts and    *)
(* joins again are always adjacent pieces of the text, joined by the empty *)
(* separator, so a piece and a chunk are given by the positions of their   *)
(* first and last character in the document.                               *)

SP == " "
NL == "\n"
Whitespace == {SP, NL}

\* self._separators
SEPARATORS == << <<NL, NL>>, <<NL>>, <<SP>>, <<>> >>

Piece(a, b) == [from |-> a, to |-> b]

PieceLen(p) == p.to - p.from + 1

\* The result of _join_docs for a text that is empty after strip().
NoPiece == [from |-> 0, to |-> -1]

\* sep occurs in text at position i, within text[..b].
MatchAt(text, i, b, sep) ==
    /\ i + Len(sep) - 1 <= b
    /\ \A j \in 1..Len(sep) : text[i + j - 1] = sep[j]

\* re.search(separator, text) on text[a..b].
Contains(text, a, b, sep) == \E i \in a..b : MatchAt(text, i, b, sep)

\* The positions of the matches of re.split: leftmost first, not overlapping.
RECURSIVE Matches(_, _, _, _)
Matches(text, i, b, sep) ==
    IF i + Len(sep) - 1 > b THEN <<>>
    ELSE IF MatchAt(text, i, b, sep)
            THEN <<i>> \o Matches(text, i + Len(sep), b, sep)
            ELSE Matches(text, i + 1, b, sep)

\* _split_text_with_regex(text, separator, keep_separator=True) on text[a..b]:
\* the text before the first separator, then one piece per separator, made of
\* the separator and the text up to the next one; empty pieces are dropped.
\* With the separator "" the pieces are the characters.
split_text_with_regex(text, a, b, sep) ==
    IF sep = <<>>
        THEN [i \in 1..(b - a + 1) |-> Piece(a + i - 1, a + i - 1)]
        ELSE LET ms == Matches(text, a, b, sep)
                 starts == IF ms # <<>> /\ ms[1] = a THEN ms ELSE <<a>> \o ms
             IN  [i \in 1..Len(starts) |->
                    Piece(starts[i], IF i < Len(starts) THEN starts[i + 1] - 1 ELSE b)]

\* _join_docs(docs, ""): the pieces joined and stripped of the whitespace at
\* both ends; None when nothing is left.
join_docs(text, cur) ==
    IF cur = <<>> THEN NoPiece
    ELSE LET a == cur[1].from
             b == cur[Len(cur)].to
             inked == {i \in a..b : text[i] \notin Whitespace}
         IN  IF inked = {} THEN NoPiece
             ELSE Piece(CHOOSE i \in inked : \A j \in inked : i <= j,
                        CHOOSE i \in inked : \A j \in inked : j <= i)

\* if doc is not None: docs.append(doc), with made for the list docs.
AppendDoc(made, doc) == IF doc = NoPiece THEN made ELSE Append(made, doc)

\* The while loop without its first test: pieces are dropped only to make room
\* for the next piece, whatever the overlap allowed.
PopCondSizeOnly(total, len, chunk_size, chunk_overlap) ==
    total + len > chunk_size /\ total > 0

\* The condition of the while loop of _merge_splits that drops pieces from the
\* front of current_doc after a chunk was made (the separator has length 0).
PopCond(total, len, chunk_size, chunk_overlap) ==
    \/ total > chunk_overlap
    \/ (total + len > chunk_size /\ total > 0)

RECURSIVE PopLoop(_, _, _, _, _)
PopLoop(cur, total, len, chunk_size, chunk_overlap) ==
    IF PopCond(total, len, chunk_size, chunk_overlap)
        THEN PopLoop(Tail(cur), total - PieceLen(cur[1]), len, chunk_size, chunk_overlap)
        ELSE [cur |-> cur, total |-> total]

\* What _merge_splits returns after its loop: the chunks made so far and the
\* chunk of the pieces still in current_doc.
MergeEnd(text, made, cur) == AppendDoc(made, join_docs(text, cur))

\* The for loop of _merge_splits(splits, ""), at split k.
RECURSIVE MergeLoop(_, _, _, _, _, _, _, _)
MergeLoop(text, splits, k, made, cur, total, chunk_size, chunk_overlap) ==
    IF k > Len(splits) THEN MergeEnd(text, made, cur)
    ELSE LET d == splits[k]
             len == PieceLen(d)
             full == total + len > chunk_size /\ cur # <<>>
             flushed == IF full THEN AppendDoc(made, join_docs(text, cur)) ELSE made
             kept == IF full THEN PopLoop(cur, total, len, chunk_size, chunk_overlap)
                             ELSE [cur |-> cur, total |-> total]
         IN  MergeLoop(text, splits, k + 1, flushed, Append(kept.cur, d), kept.total + len,
                       chunk_size, chunk_overlap)

merge_splits(text, splits, chunk_size, chunk_overlap) ==
    MergeLoop(text, splits, 1, <<>>, <<>>, 0, chunk_size, chunk_overlap)

\* The separator _split_text uses on text[a..b]: the first of separators[si..]
\* that is "" or occurs in the text.
ChooseSeparator(text, a, b, si) ==
    CHOOSE j \in si..Len(SEPARATORS) :
        /\ SEPARATORS[j] = <<>> \/ Contains(text, a, b, SEPARATORS[j])
        /\ \A i \in si..(j - 1) : SEPARATORS[i] # <<>> /\ ~Contains(text, a, b, SEPARATORS[i])

\* _split_text(text, separators) on text[a..b], and its loop over the splits:
\* the short ones are collected and merged, a long one is split with the
\* separators that follow (or kept as it is when none follows).
RECURSIVE split_text_rec(_, _, _, _, _, _)
RECURSIVE SplitLoop(_, _, _, _, _, _, _, _)
SplitLoop(text, splits, k, good, final, nsi, chunk_size, chunk_overlap) ==
    LET merged == IF good # <<>>
                     THEN final \o merge_splits(text, good, chunk_size, chunk_overlap)
                     ELSE final
    IN  IF k > Len(splits) THEN merged
        ELSE LET s == splits[k] IN
             IF PieceLen(s) < chunk_size
                THEN SplitLoop(text, splits, k + 1, Append(good, s), final, nsi,
                               chunk_size, chunk_overlap)
                ELSE SplitLoop(text, splits, k + 1, <<>>,
                               IF nsi > Len(SEPARATORS)
                                  THEN Append(merged, s)
                                  ELSE merged \o split_text_rec(text, s.from, s.to, nsi,
                                                                chunk_size, chunk_overlap),
                               nsi, chunk_size, chunk_overlap)

split_text_rec(text, a, b, si, chunk_size, chunk_overlap) ==
    LET j == ChooseSeparator(text, a, b, si)
        nsi == IF SEPARATORS[j] = <<>> THEN Len(SEPARATORS) + 1 ELSE j + 1
    IN  SplitLoop(text, split_text_with_regex(text, a, b, SEPARATORS[j]), 1, <<>>, <<>>, nsi,
                  chunk_size, chunk_overlap)

\* splitter.split_text(text): the chunks of one text, as pieces of it.
split_text(text, chunk_size, chunk_overlap) ==
    split_text_rec(text, 1, Len(text), 1, chunk_size, chunk_overlap)

\* The chunks of document d appended last first.
ChunksOfLastFirst(texts, d, chunk_size, chunk_overlap) ==
    LET cs == split_text(texts[d], chunk_size, chunk_overlap)
    IN  [i \in 1..Len(cs) |-> [doc |-> d, from |-> cs[Len(cs) + 1 - i].from,
                                          to |-> cs[Len(cs) + 1 - i].to]]

\* The chunks of document d, each with the document it comes from.
ChunksOf(texts, d, chunk_size, chunk_overlap) ==
    LET cs == split_text(texts[d], chunk_size, chunk_overlap)
    IN  [i \in 1..Len(cs) |-> [doc |-> d, from |-> cs[i].from, to |-> cs[i].to]]

\* splitter.split_documents(docs): create_documents goes through the texts in
\* order and appends the chunks of each.
RECURSIVE CreateDocuments(_, _, _, _)
CreateDocuments(texts, d, chunk_size, chunk_overlap) ==
    IF d > Len(texts) THEN <<>>
    ELSE ChunksOf(texts, d, chunk_size, chunk_overlap)
            \o CreateDocuments(texts, d + 1, chunk_size, chunk_overlap)

split_documents(texts, chunk_size, chunk_overlap) ==
    CreateDocuments(texts, 1, chunk_size, chunk_overlap)

\* page_content of a chunk.
ChunkText(texts, c) == SubSeq(texts[c.doc], c.from, c.to)

----------------------------------------------------------------------------
(* __main__ lines 116-120 on document contents: SpecSplit                  *)
(*                                                                         *)
(* The loaded documents are short texts over a letter, the space and the   *)
(* newline. The splitter is the one above with a chunk size and an overlap *)
(* scaled down with the texts (0 <= overlap < size, size at least 2, as    *)
(* for the 800 and 120 of lines 32-33).                                    *)

MaxText == 6
MaxPairText == 3
MaxChunkSize == 4

Alphabet == {"a", SP, NL}

\* What load_documents returned: one document, or two shorter ones.
LoadedTexts ==
    {<<t>> : t \in SeqsUpTo(Alphabet, MaxText)}
        \cup {<<t, u>> : t \in SeqsUpTo(Alphabet, MaxPairText),
                         u \in SeqsUpTo(Alphabet, MaxPairText)}

SplitterParams ==
    {p \in [chunk_size : 2..MaxChunkSize, chunk_overlap : 0..MaxChunkSize] :
        p.chunk_overlap < p.chunk_size}

InitSplit ==
    /\ disk = NoDisk
    /\ pc = [r \in Runs |-> "find"]
    /\ rebuild = [r \in Runs |-> TRUE]
    /\ files = [r \in Runs |-> <<>>]
    /\ docs = [r \in Runs |-> <<>>]
    /\ chunks = [r \in Runs |-> 0]
    /\ embedded = [r \in Runs |-> 0]
    /\ vs = [r \in Runs |-> NoStore]
    /\ readVec = [r \in Runs |-> NoGen]
    /\ err = [r \in Runs |-> "none"]
    /\ written = [r \in Runs |-> 0]
    /\ diskAtCall = [r \in Runs |-> NoDisk]
    /\ embedCalls = [r \in Runs |-> 0]
    /\ q = NoQuery
    /\ ask = NoAsk
    /\ ld = NoLoad
    /\ det = NoRepeat
    /\ rd = NoDates
    /\ ing = NoIngest
    /\ pa = NoAlert
    /\ \E texts \in LoadedTexts, p \in SplitterParams :
          sp = [state |-> "loaded", docs |-> texts,
                chunk_size |-> p.chunk_size, chunk_overlap |-> p.chunk_overlap,
                chunks |-> <<>>, err |-> "none"]

\* Line 116: chunks = split_documents(docs).
split_documents_call ==
    /\ sp.state = "loaded"
    /\ sp' = [sp EXCEPT !.state = "split",
                        !.chunks = split_documents(sp.docs, sp.chunk_size, sp.chunk_overlap)]
    /\ UNCHANGED <<pipeVars, q, ask, sideVars>>

\* Lines 117-118 without the test: the run goes on to line 120 with any chunks.
main_check_chunks_missing(cs) == [state |-> "build", err |-> "none"]

\* Lines 117-118: if not chunks: raise SystemExit("No chunks created from
\* documents."); otherwise line 120 calls build_or_load_faiss.
main_check_chunks(cs) ==
    IF cs = <<>>
        THEN [state |-> "failed", err |-> "SystemExit: No chunks created from documents."]
        ELSE [state |-> "build", err |-> "none"]

main_after_split ==
    /\ sp.state = "split"
    /\ sp' = [sp EXCEPT !.state = main_check_chunks(sp.chunks).state,
                        !.err = main_check_chunks(sp.chunks).err]
    /\ UNCHANGED <<pipeVars, q, ask, sideVars>>

NextSplit ==
    \/ split_documents_call
    \/ main_after_split

SpecSplit == InitSplit /\ [][NextSplit]_vars

----------------------------------------------------------------------------
(* The pipeline variables of a specification that does not run the        *)
(* pipeline of Spec, nor a query, a split or an ask_question call.         *)

IdlePipeline ==
    /\ disk = NoDisk
    /\ pc = [r \in Runs |-> "find"]
    /\ rebuild = [r \in Runs |-> TRUE]
    /\ files = [r \in Runs |-> <<>>]
    /\ docs = [r \in Runs |-> <<>>]
    /\ chunks = [r \in Runs |-> 0]
    /\ embedded = [r \in Runs |-> 0]
    /\ vs = [r \in Runs |-> NoStore]
    /\ readVec = [r \in Runs |-> NoGen]
    /\ err = [r \in Runs |-> "none"]
    /\ written = [r \in Runs |-> 0]
    /\ diskAtCall = [r \in Runs |-> NoDisk]
    /\ embedCalls = [r \in Runs |-> 0]
    /\ q = NoQuery
    /\ sp = NoSplit
    /\ ask = NoAsk

----------------------------------------------------------------------------
(* Two runs in a row on the same chunks: SpecRepeat                        *)
(*                                                                         *)
(* Each run does lines 79-86 and the retrieval of line 103 on the content  *)
(* of the vector store: the vectors of the faiss index, the docstore       *)
(* (uuid -> chunk) and index_to_docstore_id (position -> uuid). The uuids  *)
(* are drawn anew by every from_documents (uuid4); the embedding is a      *)
(* function of the text.                                                   *)

MaxRepeatChunks == 3

\* The chunk texts. Two of them have the same embedding.
RepeatTexts == {"p", "q", "r"}

\* embeddings.embed_documents / embed_query: a deterministic embedding.
embed_text(t) ==
    CASE t = "p" -> <<5, 0>>
      [] t = "q" -> <<3, 4>>
      [] OTHER   -> <<5, 0>>

\* The uuids from_documents gives to n chunks: 1..n in one of its rotations.
UuidDraws(n) == {[i \in 1..n |-> ((i + s - 1) % n) + 1] : s \in 1..n}

\* Position p of sequence ids when sorted in increasing order.
SortedIds(ids) ==
    [p \in 1..Len(ids) |->
        CHOOSE u \in Range(ids) : Cardinality({w \in Range(ids) : w < u}) = p - 1]

\* index_to_docstore_id, keyed by the uuids in increasing order instead of the
\* order in which the vectors were added.
IndexToDocstoreIdSorted(ids) == SortedIds(ids)

\* FAISS.__from: index_to_docstore_id = {j: id_ for j, id_ in enumerate(ids)}.
IndexToDocstoreId(ids) == ids

\* FAISS.from_documents(chunks, embeddings), line 79: the vectors in the order
\* of the chunks, the docstore and the index_to_docstore_id.
FromDocuments(cs, ids) ==
    [vectors |-> [i \in 1..Len(cs) |-> embed_text(cs[i])],
     docstore |-> [u \in Range(ids) |-> cs[CHOOSE i \in 1..Len(ids) : ids[i] = u]],
     index_to_docstore_id |-> IndexToDocstoreId(ids)]

NoMemory == [vectors |-> <<>>, docstore |-> <<>>, index_to_docstore_id |-> <<>>]

\* index.faiss and index.pkl of INDEX_PATH.
NoIndexFiles == [faiss |-> "absent", pkl |-> "absent"]

\* The documents the retriever returns from a store (line 90, line 103): the
\* positions found by the search, looked up through index_to_docstore_id and
\* the docstore.
RetrieveDocuments(store, qv, k, st) ==
    LET pos == IF st = "similarity"
                  THEN similarity_search(store.vectors, qv, k)
                  ELSE max_marginal_relevance_search(store.vectors, qv, k, FETCH_K, LAMBDA_MULT)
    IN  [j \in 1..Len(pos) |-> store.docstore[store.index_to_docstore_id[pos[j]]]]

RepeatRuns == {1, 2}

InitRepeat ==
    /\ IdlePipeline
    /\ ld = NoLoad
    /\ rd = NoDates
    /\ ing = NoIngest
    /\ pa = NoAlert
    /\ \E cs \in SeqsUpTo(RepeatTexts, MaxRepeatChunks) \ {<<>>},
          qt \in RepeatTexts, k \in AskKs, st \in SearchTypes :
          det = [state |-> "run", chunks |-> cs, question |-> qt, k |-> k, search_type |-> st,
                 run |-> 1, pc |-> "build", mem |-> NoMemory, files |-> NoIndexFiles,
                 uuids |-> [r \in RepeatRuns |-> <<>>],
                 results |-> [r \in RepeatRuns |-> <<>>]]

\* Line 79: vs = FAISS.from_documents(chunks, embeddings).
repeat_from_documents ==
    /\ det.state = "run" /\ det.pc = "build"
    /\ \E ids \in UuidDraws(Len(det.chunks)) :
          det' = [det EXCEPT !.mem = FromDocuments(det.chunks, ids),
                             !.uuids[det.run] = ids,
                             !.pc = "save_index"]
    /\ UNCHANGED <<pipeVars, q, sp, ask, ld, rd, ing, pa>>

\* Lines 80-81, first file: faiss.write_index(self.index, index.faiss).
repeat_save_index ==
    /\ det.state = "run" /\ det.pc = "save_index"
    /\ det' = [det EXCEPT !.files.faiss = det.mem.vectors, !.pc = "save_pickle"]
    /\ UNCHANGED <<pipeVars, q, sp, ask, ld, rd, ing, pa>>

\* Line 81, second file: pickle.dump((self.docstore, self.index_to_docstore_id)).
repeat_save_pickle ==
    /\ det.state = "run" /\ det.pc = "save_pickle"
    /\ det' = [det EXCEPT !.files.pkl = [docstore |-> det.mem.docstore,
                                         index_to_docstore_id |-> det.mem.index_to_docstore_id],
                          !.pc = "load"]
    /\ UNCHANGED <<pipeVars, q, sp, ask, ld, rd, ing, pa>>

\* Line 84: vs = FAISS.load_local(INDEX_PATH, ...), built from the two files.
repeat_load_local ==
    /\ det.state = "run" /\ det.pc = "load"
    /\ det' = [det EXCEPT !.mem = [vectors |-> det.files.faiss,
                                   docstore |-> det.files.pkl.docstore,
                                   index_to_docstore_id |-> det.files.pkl.index_to_docstore_id],
                          !.pc = "query"]
    /\ UNCHANGED <<pipeVars, q, sp, ask, ld, rd, ing, pa>>

\* Line 103: the retrieval of ask_question on the loaded store.
repeat_query ==
    /\ det.state = "run" /\ det.pc = "query"
    /\ det' = [det EXCEPT !.results[det.run] =
                              RetrieveDocuments(det.mem, embed_text(det.question), det.k,
                                                det.search_type),
                          !.pc = "done"]
    /\ UNCHANGED <<pipeVars, q, sp, ask, ld, rd, ing, pa>>

\* The program is started again on the same documents.
repeat_second_run ==
    /\ det.state = "run" /\ det.pc = "done" /\ det.run = 1
    /\ det' = [det EXCEPT !.run = 2, !.pc = "build", !.mem = NoMemory]
    /\ UNCHANGED <<pipeVars, q, sp, ask, ld, rd, ing, pa>>

NextRepeat ==
    \/ repeat_from_documents
    \/ repeat_save_index
    \/ repeat_save_pickle
    \/ repeat_load_local
    \/ repeat_query
    \/ repeat_second_run

SpecRepeat == InitRepeat /\ [][NextRepeat]_vars

----------------------------------------------------------------------------
(* check_and_alert_price_change of main.py, lines 319-353: SpecAlert       *)
(*                                                                         *)
(* The pricing data is, for every Product_SKU in the order of unique(),    *)
(* the Our_Price column of its rows sorted by Date. Prices are positive    *)
(* integers; a relative change is compared with the threshold without a    *)
(* division.                                                               *)

MaxPriceRows == 8

\* PRICE_CHANGE_THRESHOLD_PERCENT = 0.05, in hundredths.
PRICE_CHANGE_THRESHOLD_PERCENT == 5

\* .tail(7): the latest 7 rows of the product.
TAIL_ROWS == 7

Prices == {100, 104, 105}

Skus == <<"A", "B">>

\* The rows of the second product: one row, or two.
ShortRows == {<<100>>, <<100, 104>>, <<100, 105>>}

Abs(x) == IF x < 0 THEN -x ELSE x

\* s.tail(n)
TailRows(s, n) == IF Len(s) <= n THEN s ELSE SubSeq(s, Len(s) - n + 1, Len(s))

RECURSIVE SumSeq(_)
SumSeq(s) == IF s = <<>> THEN 0 ELSE Head(s) + SumSeq(Tail(s))

\* Lines 336-344: the old price as a sum of rows and their number (the mean
\* of iloc[-6:-1], or iloc[-2]), or nothing when the product is skipped.
OldPrice(df_sku) ==
    IF Len(df_sku) >= 6
        THEN [found |-> TRUE, sum |-> SumSeq(SubSeq(df_sku, Len(df_sku) - 5, Len(df_sku) - 1)),
              n |-> 5]
        ELSE IF Len(df_sku) = 2
                THEN [found |-> TRUE, sum |-> df_sku[1], n |-> 1]
                ELSE [found |-> FALSE, sum |-> 0, n |-> 1]

\* Lines 346-348: abs((new_price - old_price) / old_price) >= threshold, with
\* old_price = sum / n.
OverThreshold(new_price, sum, n) ==
    100 * Abs(n * new_price - sum) >= PRICE_CHANGE_THRESHOLD_PERCENT * sum

InitAlert ==
    /\ IdlePipeline
    /\ ld = NoLoad
    /\ det = NoRepeat
    /\ rd = NoDates
    /\ ing = NoIngest
    /\ \E a \in SeqsUpTo(Prices, MaxPriceRows) \ {<<>>}, b \in ShortRows, first \in {1, 2} :
          pa = [state |-> "loop",
                rows |-> IF first = 1 THEN <<a, b>> ELSE <<b, a>>,
                next |-> 1, compared |-> {}, alerts |-> {}, info |-> FALSE]

\* Lines 324-350: one turn of the loop over the products.
alert_check_sku ==
    /\ pa.state = "loop"
    /\ pa.next <= Len(pa.rows)
    /\ LET df_sku == TailRows(pa.rows[pa.next], TAIL_ROWS)
           old == OldPrice(df_sku)
           new_price == df_sku[Len(df_sku)]
       IN  IF Len(df_sku) < 2 \/ ~old.found
              THEN pa' = [pa EXCEPT !.next = @ + 1]
              ELSE pa' = [pa EXCEPT !.next = @ + 1,
                                    !.compared = @ \cup {Skus[pa.next]},
                                    !.alerts = IF OverThreshold(new_price, old.sum, old.n)
                                                  THEN @ \cup {Skus[pa.next]} ELSE @]
    /\ UNCHANGED <<pipeVars, q, sp, ask, ld, det, rd, ing>>

\* Lines 352-353, after the loop: the message that nothing was found.
alert_finish ==
    /\ pa.state = "loop"
    /\ pa.next > Len(pa.rows)
    /\ pa' = [pa EXCEPT !.state = "done", !.info = (pa.alerts = {})]
    /\ UNCHANGED <<pipeVars, q, sp, ask, ld, det, rd, ing>>

NextAlert ==
    \/ alert_check_sku
    \/ alert_finish

SpecAlert == InitAlert /\ [][NextAlert]_vars

----------------------------------------------------------------------------
(* parse_relative_date of ingestion.py, lines 25-54: SpecDates             *)
(*                                                                         *)
(* The texts are "N months ago" (the branch of lines 34-43); now is the    *)
(* value of datetime.now().                                                *)

MaxMonths == 24

NoDate == [none |-> TRUE, year |-> 0, month |-> 0, day |-> 0]

\* datetime(year, month, day).date(): ValueError outside the calendar. The day
\* passed is at most 28, so only the month and the year can be wrong.
MakeDate(year, month, day) ==
    IF year >= 1 /\ month >= 1 /\ month <= 12 /\ day >= 1 /\ day <= 28
        THEN [none |-> FALSE, year |-> year, month |-> month, day |-> day]
        ELSE NoDate

\* Lines 37-43 for months = N; the ValueError of datetime() is caught by
\* except Exception (lines 53-54), which returns None.
parse_relative_date_months(now, months) ==
    LET m0 == now.month - months
        month == IF m0 <= 0 THEN m0 + 12 ELSE m0
        year == IF m0 <= 0 THEN now.year - 1 ELSE now.year
        day == Min(now.day, 28)
    IN  MakeDate(year, month, day)

\* The values of datetime.now().
Nows == [year : {2024, 2025}, month : 1..12, day : {1, 28, 29, 31}]

InitDates ==
    /\ IdlePipeline
    /\ ld = NoLoad
    /\ det = NoRepeat
    /\ ing = NoIngest
    /\ pa = NoAlert
    /\ \E now \in Nows, n \in 0..MaxMonths :
          rd = [state |-> "called", now |-> now, months |-> n, result |-> NoDate]

\* parse_relative_date("N months ago") returns.
parse_relative_date_call ==
    /\ rd.state = "called"
    /\ rd' = [rd EXCEPT !.state = "returned",
                        !.result = parse_relative_date_months(rd.now, rd.months)]
    /\ UNCHANGED <<pipeVars, q, sp, ask, ld, det, ing, pa>>

NextDates == parse_relative_date_call

SpecDates == InitDates /\ [][NextDates]_vars

----------------------------------------------------------------------------
(* main of ingestion.py, lines 90-121: SpecIngest                          *)
(*                                                                         *)
(* A file is absent or holds rows; of a row only the productid counts.     *)
(* valid_product_ids is a local variable of main: it is unbound until line *)
(* 96 assigns it.                                                          *)

MaxReviewRows == 2

ProductIds == {1, 2, 3}

Unbound == [bound |-> FALSE, ids |-> {}]

InitIngest ==
    /\ IdlePipeline
    /\ ld = NoLoad
    /\ det = NoRepeat
    /\ rd = NoDates
    /\ pa = NoAlert
    /\ \E me \in BOOLEAN, re \in BOOLEAN, mobile \in SUBSET {1, 2},
          reviews \in SeqsUpTo(ProductIds, MaxReviewRows) :
          ing = [state |-> "mobile", mobile_exists |-> me, reviews_exists |-> re,
                 mobile |-> mobile, reviews |-> reviews,
                 valid_product_ids |-> Unbound,
                 wrote_mobile |-> FALSE, wrote_reviews |-> FALSE, kept |-> <<>>,
                 err |-> "none"]

\* Lines 92-103: the mobile file is cleaned and written, valid_product_ids is
\* the set of its product ids; or a warning when the file is not there.
ingest_mobile ==
    /\ ing.state = "mobile"
    /\ ing' = IF ing.mobile_exists
                 THEN [ing EXCEPT !.state = "reviews",
                                  !.valid_product_ids = [bound |-> TRUE, ids |-> ing.mobile],
                                  !.wrote_mobile = TRUE]
                 ELSE [ing EXCEPT !.state = "reviews"]
    /\ UNCHANGED <<pipeVars, q, sp, ask, ld, det, rd, pa>>

\* Lines 105-121: the reviews file is read; line 111 reads valid_product_ids
\* (UnboundLocalError when it was never assigned) and filters by it when it
\* is not empty (kept: the rows that pass); the reviews are cleaned and written.
ingest_reviews ==
    /\ ing.state = "reviews"
    /\ ing' = IF ~ing.reviews_exists
                 THEN [ing EXCEPT !.state = "done"]
                 ELSE IF ~ing.valid_product_ids.bound
                         THEN [ing EXCEPT !.state = "failed", !.err = "UnboundLocalError"]
                         ELSE [ing EXCEPT
                                 !.state = "done",
                                 !.kept = IF ing.valid_product_ids.ids # {}
                                                THEN SelectSeq(ing.reviews,
                                                        LAMBDA p : p \in ing.valid_product_ids.ids)
                                                ELSE ing.reviews,
                                 !.wrote_reviews = TRUE]
    /\ UNCHANGED <<pipeVars, q, sp, ask, ld, det, rd, pa>>

NextIngest ==
    \/ ingest_mobile
    \/ ingest_reviews

SpecIngest == InitIngest /\ [][NextIngest]_vars

----------------------------------------------------------------------------
(* The loop of load_documents, lines 52-64, and lines 112-114: SpecLoad    *)
(*                                                                         *)
(* A path has a suffix and what its loader does: it returns n documents    *)
(* (the file, the pages of a pdf, the rows of a csv) or raises. A document *)
(* is named by the position of its path and its rank in the file.          *)

MaxLoadFiles == 3

LoadFiles ==
    {[suffix |-> ".txt", raises |-> FALSE, n |-> 1],
     [suffix |-> ".md", raises |-> TRUE, n |-> 0],
     [suffix |-> ".pdf", raises |-> FALSE, n |-> 2],
     [suffix |-> ".pdf", raises |-> TRUE, n |-> 0],
     [suffix |-> ".csv", raises |-> FALSE, n |-> 0],
     [suffix |-> ".bin", raises |-> FALSE, n |-> 1]}

LoaderSuffixes == {".txt", ".md", ".pdf", ".csv"}

\* loader.load() of path i, when it returns.
LoadedFrom(paths, i) == [j \in 1..paths[i].n |-> [path |-> i, part |-> j]]

InitLoad ==
    /\ IdlePipeline
    /\ det = NoRepeat
    /\ rd = NoDates
    /\ ing = NoIngest
    /\ pa = NoAlert
    /\ \E paths \in SeqsUpTo(LoadFiles, MaxLoadFiles) :
          ld = [state |-> "loop", paths |-> paths, i |-> 1, docs |-> <<>>, warned |-> <<>>,
                err |-> "none"]

\* No handler around the loader: its exception leaves load_documents.
load_except_missing(l) == [l EXCEPT !.state = "raised", !.err = "Exception"]

\* Lines 62-63: except Exception as e: print("[WARN] Failed to load ..."),
\* and the loop goes on with the next path.
load_except(l) == [l EXCEPT !.warned = Append(@, l.i), !.i = @ + 1]

\* Lines 54-63: one turn of the loop, for path i. A suffix that is none of
\* the four takes no branch and adds nothing.
load_documents_path ==
    /\ ld.state = "loop"
    /\ ld.i <= Len(ld.paths)
    /\ ld' = IF ld.paths[ld.i].suffix \notin LoaderSuffixes
                THEN [ld EXCEPT !.i = @ + 1]
                ELSE IF ld.paths[ld.i].raises
                        THEN load_except(ld)
                        ELSE [ld EXCEPT !.docs = @ \o LoadedFrom(ld.paths, ld.i),
                                        !.i = @ + 1]
    /\ UNCHANGED <<pipeVars, q, sp, ask, det, rd, ing, pa>>

\* Line 64: return docs.
load_documents_return ==
    /\ ld.state = "loop"
    /\ ld.i > Len(ld.paths)
    /\ ld' = [ld EXCEPT !.state = "returned"]
    /\ UNCHANGED <<pipeVars, q, sp, ask, det, rd, ing, pa>>

\* Lines 113-114: if not docs: raise SystemExit; otherwise line 116.
main_after_load ==
    /\ ld.state = "returned"
    /\ ld' = IF ld.docs = <<>>
                THEN [ld EXCEPT !.state = "exit", !.err = "SystemExit: No documents loaded"]
                ELSE [ld EXCEPT !.state = "split"]
    /\ UNCHANGED <<pipeVars, q, sp, ask, det, rd, ing, pa>>

NextLoad ==
    \/ load_documents_path
    \/ load_documents_return
    \/ main_after_load

SpecLoad == InitLoad /\ [][NextLoad]_vars

----------------------------------------------------------------------------
(* Claims about build_or_load_faiss and __main__, checked under Spec *)

Others(r) == Runs \ {r}

\* A snapshot with both parts written completely.
ValidSnapshot(d) == d.faiss.st = "complete" /\ d.pkl.st = "complete"

\* C1: persisting the index is atomic. In every reachable state, the states in
\* the middle of the write and after an interruption included, a load of
\* INDEX_PATH that succeeds returns a vector structure and a record store that
\* come from the same persist; it never returns a partially written index.
C1_AtomicPersist ==
    \A rv \in ReadFile(disk.faiss), rp \in ReadFile(disk.pkl) :
        (rv.ok /\ rp.ok) => (rv.gen = rp.gen /\ rv.gen \in Gens)

\* C2: if persisting fails with an I/O error at any point of the write, the
\* snapshot that was at INDEX_PATH before the persist began is still there,
\* unchanged (no other run having written).
C2_PriorSnapshotIntact ==
    \A r \in Runs :
        ( /\ err[r] = "OSError"
          /\ ValidSnapshot(diskAtCall[r])
          /\ \A s \in Others(r) : written[s] = 0 )
        => disk = diskAtCall[r]

\* The positions at which a run has a file of the snapshot open for writing,
\* or has written the first file and not yet the second.
InSaveLocal == {"write_index", "pickle_open", "pickle_dump"}

\* C3: of two runs that rebuild against the same INDEX_PATH at most one is
\* writing the snapshot at any time, and the snapshot never combines the vector
\* structure written by one run with the record store written by the other.
C3_SingleWriter ==
    /\ Cardinality({r \in Runs : pc[r] \in InSaveLocal}) <= 1
    /\ ~ ( /\ ValidSnapshot(disk)
           /\ disk.faiss.gen \in Runs
           /\ disk.pkl.gen \in Runs
           /\ disk.faiss.gen # disk.pkl.gen )

\* C4: if the embedding call fails for a chunk during a rebuild, the run made
\* no change under INDEX_PATH, and (no other run having written) INDEX_PATH
\* and its files are the same as when build_or_load_faiss was called.
C4_FailedBuildPublishesNothing ==
    \A r \in Runs :
        err[r] = "EmbeddingServiceError" =>
            /\ written[r] = 0
            /\ (\A s \in Others(r) : written[s] = 0) => disk = diskAtCall[r]

\* C4 witness: the embedding fails after a first chunk was embedded, in a
\* rebuild that found a snapshot at INDEX_PATH; the snapshot is as it was.
C4_Witness ==
    \E r \in Runs :
        /\ err[r] = "EmbeddingServiceError"
        /\ embedded[r] >= 1
        /\ rebuild[r]
        /\ ValidSnapshot(diskAtCall[r])
        /\ disk = diskAtCall[r]

\* C5: when no file is found or no document is loaded, the run fails with the
\* SystemExit of the empty input before the build step: it embeds nothing,
\* holds no vector store and writes nothing under INDEX_PATH.
C5_EmptyInputStopsRun ==
    \A r \in Runs :
        (pc[r] \notin {"find", "load"} /\ docs[r] = <<>>) =>
            /\ pc[r] = "failed"
            /\ err[r] \in {"SystemExit: no documents found", "SystemExit: no documents loaded"}
            /\ embedded[r] = 0
            /\ written[r] = 0
            /\ vs[r] = NoStore

\* C5 witness: one run found no file, the other found a file and loaded no
\* document of it; both have stopped.
C5_Witness ==
    \E r \in Runs, s \in Runs :
        /\ err[r] = "SystemExit: no documents found" /\ files[r] = <<>>
        /\ err[s] = "SystemExit: no documents loaded" /\ files[s] # <<>> /\ docs[s] = <<>>

\* A part of the snapshot that load_local cannot read: missing or truncated.
Unreadable(f) == f.st \in {"absent", "partial"}

\* C6: with rebuild=False, build_or_load_faiss never embeds the chunks it was
\* given, never builds a store and writes nothing; when a part of the snapshot
\* is missing or truncated at the time load_local reads it, the step ends the
\* run with an exception.
C6_NoFallbackStep ==
    \A r \in Runs :
        ~rebuild[r] =>
            /\ embedded'[r] = 0
            /\ written'[r] = 0
            /\ vs'[r].origin # "built"
            /\ pc'[r] \notin PersistPcs \cup {"embed"}
            /\ ( /\ pc'[r] # pc[r]
                 /\ \/ pc[r] = "read_index" /\ Unreadable(disk.faiss)
                    \/ pc[r] = "read_pickle" /\ Unreadable(disk.pkl) )
               => (pc'[r] = "failed" /\ err'[r] # "none" /\ disk' = disk)

C6_NoFallback == [][C6_NoFallbackStep]_vars

\* C6 witness: a run with rebuild=False found nothing at INDEX_PATH and failed.
C6_Witness ==
    \E r \in Runs :
        /\ ~rebuild[r]
        /\ chunks[r] > 0
        /\ disk = NoDisk
        /\ pc[r] = "failed"
        /\ err[r] = "RuntimeError: read_index"

\* C7: a load never returns an index made of parts that do not belong
\* together: the store a successful load returns has a vector structure and a
\* record store of the same persist.
C7_LoadRejectsMismatch ==
    \A r \in Runs :
        vs[r].origin = "loaded" => (vs[r].vec = vs[r].store /\ vs[r].vec \in Gens)

\* The positions of a rebuilding run after from_documents has returned.
AfterBuildPcs == PersistPcs \cup {"read_index", "read_pickle", "ask", "done", "crashed"}

C22_RebuildQueriesLoadedCopy ==
    \A r \in Runs :
        (rebuild[r] /\ pc[r] \in {"ask", "done"}) =>
            /\ vs[r].origin = "loaded"
            /\ embedded[r] = chunks[r]
            /\ written[r] > 0
            /\ vs[r].vec = r
            /\ vs[r].store = r

\* C27: with rebuild = False, build_or_load_faiss changes nothing under
\* INDEX_PATH and makes no embedding call for its chunks, and the index it
\* returns is made of files this run did not write: its chunks are not in it.
C27_LoadOnlyFrame ==
    \A r \in Runs :
        ~rebuild[r] =>
            /\ written[r] = 0
            /\ embedCalls[r] = 0
            /\ embedded[r] = 0
            /\ pc[r] \in {"ask", "done"} =>
                  (vs[r].origin = "loaded" /\ vs[r].vec # r /\ vs[r].store # r)

\* A run with rebuild = False that was given chunks has returned the snapshot
\* found at INDEX_PATH, which is as it was when the run began.
C27_Witness ==
    \E r \in Runs :
        /\ ~rebuild[r]
        /\ chunks[r] > 0
        /\ pc[r] = "ask"
        /\ vs[r] = LoadedStore(OldGen, OldGen)
        /\ disk = OldSnapshot

----------------------------------------------------------------------------
(* Claims about the retrieval of ask_question, checked under SpecQuery *)

\* C8: for every k >= 1 and every non-empty index, the retrieval returns
\* exactly min(k, size(index)) chunks, under both search types.
C8_BoundedRetrieval ==
    (q.state = "retrieved" /\ Len(q.index) >= 1) =>
        Len(q.result) = Min(q.k, Len(q.index))

\* Distance of chunk i of the queried index to the question.
Dist(i) == L2sq(q.index[i], q.question)

C11_MmrSelectsDistinct ==
    (q.state = "retrieved" /\ q.search_type = "mmr") =>
        /\ Len(q.result) = Min(q.k, Len(q.index))
        /\ \A p \in 1..Len(q.result) : q.result[p] \in 1..Len(q.index)
        /\ \A p1 \in 1..Len(q.result), p2 \in 1..Len(q.result) :
              p1 # p2 => q.result[p1] # q.result[p2]

----------------------------------------------------------------------------
(* Claims about ask_question, checked under SpecAsk *)

\* The retrieval a call would make alone on the index as it was loaded.
RetrievedAlone(qv) ==
    IF ask.search_type = "similarity"
        THEN similarity_search(VectorsOf(ask.index0), qv, ask.k)
        ELSE max_marginal_relevance_search(VectorsOf(ask.index0), qv, ask.k, FETCH_K, LAMBDA_MULT)

C18_NoEmptyAnswer ==
    \A c \in Calls :
        /\ ask.call[c].pc = "done" => ask.call[c].answer = "text"
        /\ (ask.call[c].pc = "failed" /\ ask.call[c].generateCalls > 0) =>
              ask.call[c].err = "GenerationServiceError"

\* C19: one call of ask_question makes at most one call to the generation
\* service and at most one query-embedding call.
C19_SingleAttempt ==
    \A c \in Calls :
        /\ ask.call[c].generateCalls <= 1
        /\ ask.call[c].embedQueryCalls <= 1

\* The maximum context length of the specification (section 4.4), which no
\* line of ask_question states: here the text of one full chunk.
ContextBudget == CHUNK_SIZE

\* C20: the context put into the prompt never exceeds the maximum context
\* budget, and holds at least one chunk when the index is not empty.
C20_ContextWithinBudget ==
    \A c \in Calls :
        ask.call[c].pc \in {"generate", "done"} =>
            /\ ask.call[c].context <= ContextBudget
            /\ Len(ask.index) >= 1 => Len(ask.call[c].result) >= 1

----------------------------------------------------------------------------
(* Claims about split_documents, checked under SpecSplit *)

\* split_documents has returned.
SplitDone == sp.state \in {"split", "build", "failed"}

\* The chunks of document d, in the order split_documents returned them.
ChunksOfDoc(d) == SelectSeq(sp.chunks, LAMBDA c : c.doc = d)

RECURSIVE Concat(_)
Concat(ss) == IF ss = <<>> THEN <<>> ELSE Head(ss) \o Concat(Tail(ss))

\* The chunk texts of document d, every one but the first without its first
\* chunk_overlap characters.
OverlapsStripped(d) ==
    LET cs == ChunksOfDoc(d)
    IN  [i \in 1..Len(cs) |->
            IF i = 1 THEN ChunkText(sp.docs, cs[i])
            ELSE SubSeq(ChunkText(sp.docs, cs[i]), sp.chunk_overlap + 1,
                        Len(ChunkText(sp.docs, cs[i])))]

\* C13: for every document, the texts of its chunks put together in order,
\* after the first chunk_overlap characters of every chunk but the first are
\* removed, are exactly the content of the document.
C13_RoundTripExact ==
    SplitDone => \A d \in 1..Len(sp.docs) : Concat(OverlapsStripped(d)) = sp.docs[d]

\* C14: split_documents returns the chunks in a stable order: the chunks of a
\* document come before the chunks of every later document, and the chunks of
\* one document come in increasing position within its content (no chunk
\* starts or ends before an earlier chunk of the same document does).
C14_StableOrder ==
    SplitDone =>
        \A i, j \in 1..Len(sp.chunks) :
            i < j =>
                /\ sp.chunks[i].doc <= sp.chunks[j].doc
                /\ sp.chunks[i].doc = sp.chunks[j].doc =>
                      /\ sp.chunks[i].from <= sp.chunks[j].from
                      /\ sp.chunks[i].to <= sp.chunks[j].to

\* Two documents, the first cut into chunks at different positions, the second
\* with a chunk of its own.
C14_Witness ==
    /\ sp.state = "build"
    /\ Len(sp.docs) = 2
    /\ Len(ChunksOfDoc(1)) >= 2
    /\ ChunksOfDoc(1)[1].from < ChunksOfDoc(1)[2].from
    /\ Len(ChunksOfDoc(2)) >= 1

\* The number of characters chunk i has in common with the chunk before it.
SharedWithPrevious(i) ==
    Cardinality((sp.chunks[i - 1].from .. sp.chunks[i - 1].to)
                    \cap (sp.chunks[i].from .. sp.chunks[i].to))

\* C15: every chunk split_documents returns has at most chunk_size characters,
\* and has at most chunk_overlap characters in common with the previous chunk
\* of the same document.
C15_ChunkBounds ==
    SplitDone =>
        \A i \in 1..Len(sp.chunks) :
            /\ PieceLen(sp.chunks[i]) <= sp.chunk_size
            /\ (i > 1 /\ sp.chunks[i - 1].doc = sp.chunks[i].doc) =>
                  SharedWithPrevious(i) <= sp.chunk_overlap

\* A chunk as long as chunk_size, followed by a chunk of the same document
\* that repeats as many of its characters as chunk_overlap allows.
C15_Witness ==
    /\ sp.state = "build"
    /\ sp.chunk_overlap > 0
    /\ \E i \in 2..Len(sp.chunks) :
          /\ sp.chunks[i - 1].doc = sp.chunks[i].doc
          /\ PieceLen(sp.chunks[i - 1]) = sp.chunk_size
          /\ SharedWithPrevious(i) = sp.chunk_overlap

\* Every loaded document is empty once the whitespace is trimmed.
AllBlank ==
    \A d \in 1..Len(sp.docs) : \A i \in 1..Len(sp.docs[d]) : sp.docs[d][i] \in Whitespace

\* C16: when every loaded document is empty after whitespace trimming, no
\* chunk is made and the run ends with the no-chunks error: it never reaches
\* build_or_load_faiss, so nothing is embedded and nothing is written.
C16_BlankInputStopsRun ==
    AllBlank =>
        /\ sp.state # "build"
        /\ sp.chunks = <<>>
        /\ sp.state = "failed" => sp.err = "SystemExit: No chunks created from documents."

\* Two documents of whitespace only, and the run ended with the error.
C16_Witness ==
    /\ AllBlank
    /\ Len(sp.docs) = 2
    /\ Len(sp.docs[1]) > 0 /\ Len(sp.docs[2]) > 0
    /\ sp.state = "failed"

----------------------------------------------------------------------------
(* Claims about repeated runs, checked under SpecRepeat *)

----------------------------------------------------------------------------
(* Claims about check_and_alert_price_change, checked under SpecAlert *)

\* C23: check_and_alert_price_change checks every product: when it is over,
\* every product with at least two price rows had its latest price compared
\* with a price taken from the rows before, and an alert was sent for it when
\* the change is at least the threshold; no product with two or more rows was
\* left unchecked.
C23_EveryProductChecked ==
    pa.state = "done" =>
        \A i \in 1..Len(pa.rows) :
            Len(pa.rows[i]) >= 2 => Skus[i] \in pa.compared

----------------------------------------------------------------------------
(* Claims about parse_relative_date, checked under SpecDates *)

\* C24: for a text "N months ago" with N >= 0 and any current date,
\* parse_relative_date does not return None: it returns a date whose month is
\* between 1 and 12 and lies N calendar months before the current month, with
\* the current day capped at 28.
C24_MonthsAgo ==
    rd.state = "returned" =>
        /\ ~rd.result.none
        /\ rd.result.month \in 1..12
        /\ rd.result.year * 12 + rd.result.month
              = rd.now.year * 12 + rd.now.month - rd.months
        /\ rd.result.day = Min(rd.now.day, 28)

----------------------------------------------------------------------------
(* Claims about main of ingestion.py, checked under SpecIngest *)

\* C25: when the reviews file exists it is cleaned and written, whether or not
\* the mobile file exists: without the mobile file main only skips the mobile
\* cleaning and the filter by product id (every review is kept), and the
\* reviews step does not fail.
C25_ReviewsWrittenWithoutMobile ==
    (ing.state \in {"done", "failed"} /\ ing.reviews_exists) =>
        /\ ing.state = "done"
        /\ ing.wrote_reviews
        /\ ~ing.mobile_exists => ing.kept = ing.reviews

----------------------------------------------------------------------------
(* Claims about load_documents, checked under SpecLoad *)

\* The paths among the first n whose loader returns.
LoadablePaths(n) ==
    {i \in 1..n : ld.paths[i].suffix \in LoaderSuffixes /\ ~ld.paths[i].raises}

\* The paths among the first n whose loader raises.
FailingPaths(n) ==
    {i \in 1..n : ld.paths[i].suffix \in LoaderSuffixes /\ ld.paths[i].raises}

\* The paths load_documents has gone through.
PathsDone == IF ld.state = "loop" THEN ld.i - 1 ELSE Len(ld.paths)

\* C26: load_documents never raises; a file whose loader raises is skipped
\* with a warning, and the documents of every other file gone through are in
\* the result, all of them and no other, in the order of the input paths.
C26_LoadIsolatesFailures ==
    /\ ld.state # "raised"
    /\ Range(ld.warned) = FailingPaths(PathsDone)
    /\ \A i \in LoadablePaths(PathsDone) :
          \A j \in 1..ld.paths[i].n : \E p \in 1..Len(ld.docs) : ld.docs[p] = [path |-> i, part |-> j]
    /\ \A p \in 1..Len(ld.docs) : ld.docs[p].path \in LoadablePaths(PathsDone)
    /\ \A p, r \in 1..Len(ld.docs) :
          p < r => \/ ld.docs[p].path < ld.docs[r].path
                   \/ (ld.docs[p].path = ld.docs[r].path /\ ld.docs[p].part < ld.docs[r].part)

\* load_documents returned the documents of the first and of the third path,
\* the loader of the second having raised.
C26_Witness ==
    /\ ld.state = "split"
    /\ Len(ld.paths) = 3
    /\ ld.warned = <<2>>
    /\ \E p, r \in 1..Len(ld.docs) : ld.docs[p].path = 1 /\ ld.docs[r].path = 3

====
